---- MODULE Spec2Model ----
(***************************************************************************)
(* A model of the FlashStudy client: the Index page (card list and mode),  *)
(* StudyMode (navigation), Flashcard (flip), CreateCardForm (manual entry  *)
(* and document upload through the backend), and the stand-alone           *)
(* FileUpload component with ClaudeService.generateFlashcards.             *)
(*                                                                         *)
(* Text is a sequence of chunks; the chunk " " is one whitespace character *)
(* and every other chunk is a run of non-whitespace characters.            *)
(***************************************************************************)
EXTENDS Integers, Sequences, FiniteSets, TLC

VARIABLES
    cards,          \* Index: the card list, a sequence of [id, front, back]
    mode,           \* Index: "study" or "create"
    currentIndex,   \* StudyMode: index of the displayed card (0-based)
    isFlipped,      \* Flashcard: whether the back is shown
    front,          \* CreateCardForm: text of the front field
    back,           \* CreateCardForm: text of the back field
    selectedFile,   \* CreateCardForm: the selected file, or NoFile
    isUploading,    \* CreateCardForm: an upload of this form instance is running
    inflight,       \* fetch() calls to /upload not yet settled: [file, live]
    now,            \* Date.now()
    added,          \* history: the cards handed to setCards so far, in order
    toasts,         \* titles of the toast() calls of the most recent handler run
    file,           \* FileUpload: the selected file, or NoFile
    isProcessing,   \* FileUpload: handleUpload is running
    apiKey,         \* FileUpload: text of the API key field
    storedKey,      \* localStorage["claude_api_key"]; <<>> when absent or empty
    call,           \* FileUpload.handleUpload: where the running call stands
    response,       \* ClaudeService: what the fetch() of the checked call yields
    lastGen,        \* outcome of the most recent generateFlashcards call
    generated       \* argument of the most recent onCardsGenerated call

indexVars == <<cards, mode, currentIndex, isFlipped, front, back, selectedFile,
               isUploading, inflight, now, added>>
fuVars == <<file, isProcessing, apiKey, storedKey, call, response, lastGen,
            generated>>
vars == <<cards, mode, currentIndex, isFlipped, front, back, selectedFile,
          isUploading, inflight, now, added, toasts,
          file, isProcessing, apiKey, storedKey, call, response, lastGen,
          generated>>

----------------------------------------------------------------------------
(* Bounds of the model *)

\* the card list is not grown beyond this length
MaxCards == 4
\* upload requests that may be pending at once
MaxInFlight == 2
\* milliseconds the clock may advance
MaxTicks == 1
\* cards in one backend response
MaxResp == 2

----------------------------------------------------------------------------
(* Text *)

IsSpace(c) == c = " "

RECURSIVE TrimStart(_)
TrimStart(s) ==
    IF s # <<>> /\ IsSpace(Head(s)) THEN TrimStart(Tail(s)) ELSE s

RECURSIVE TrimEnd(_)
TrimEnd(s) ==
    IF s # <<>> /\ IsSpace(s[Len(s)]) THEN TrimEnd(SubSeq(s, 1, Len(s) - 1)) ELSE s

\* String.prototype.trim
trim(s) == TrimEnd(TrimStart(s))

\* texts the user may type into a form field
FormTexts == { <<>>, <<" ">>, <<" ", "q", " ">> }

----------------------------------------------------------------------------
(* Files *)

NoFile == [size |-> -1, type |-> "null"]

\* const maxSize = 5 * 1024 * 1024
maxSize == 5 * 1024 * 1024

allowedTypes == { "text/plain", "application/pdf", "application/msword",
                  "application/vnd.openxmlformats-officedocument.wordprocessingml.document" }

\* files the user may pick in a file dialog
Files == [size : {maxSize, maxSize + 1},
          type : {"application/pdf", "image/png"}]

----------------------------------------------------------------------------
(* Index *)

\* Date.now() when the page is loaded; the two built-in cards have ids "1", "2"
PageLoadTime == 1000

InitialCards ==
    << [id |-> "1", front |-> <<"What is the capital of France?">>,
        back |-> <<"Paris">>],
       [id |-> "2", front |-> <<"What does HTML stand for?">>,
        back |-> <<"HyperText Markup Language">>] >>

\* the k-th {front, back} object of a backend response
DocCard(k) == [front |-> <<"Q" \o ToString(k)>>, back |-> <<"A" \o ToString(k)>>]

SeqsUpTo(S, n) == UNION { [1..k -> S] : k \in 0..n }

\* data.flashcards of a successful /upload response: N different cards
Responses == { [k \in 1..n |-> DocCard(k)] : n \in 0..MaxResp }

\* newCards.map((card, index) => ({id: `${Date.now()}-${index}`, ...}))
cardsWithIds(newCards, t) ==
    [k \in 1..Len(newCards) |->
        [id |-> ToString(t) \o "-" \o ToString(k - 1),
         front |-> newCards[k].front,
         back |-> newCards[k].back]]

\* const newCard = {id: Date.now().toString(), front, back}
newCard(f, b, t) == [id |-> ToString(t), front |-> f, back |-> b]

----------------------------------------------------------------------------
(* StudyMode and Flashcard *)

\* variant of nextIndex: no wrap-around, the index stays on the last card
nextIndex_noWrap(prev, len) == IF prev + 1 < len THEN prev + 1 ELSE prev

\* (prev + 1) % cards.length
nextIndex(prev, len) == (prev + 1) % len

\* (prev - 1 + cards.length) % cards.length
prevIndex(prev, len) == (prev - 1 + len) % len

\* <Flashcard key={currentCard.id}>: the Flashcard instance, and with it the
\* flip state, is kept exactly when the key is the same after the re-render
flipAfterMove(newIndex) ==
    IF cards[newIndex + 1].id = cards[currentIndex + 1].id
    THEN isFlipped ELSE FALSE

RemoveAt(s, i) == SubSeq(s, 1, i - 1) \o SubSeq(s, i + 1, Len(s))

\* the requests of an unmounted form instance stay pending, but their state
\* setters no longer reach a mounted component
Orphaned(reqs) == [k \in 1..Len(reqs) |-> [reqs[k] EXCEPT !.live = FALSE]]

\* a freshly mounted CreateCardForm (useState initial values)
FreshForm ==
    /\ front' = <<>>
    /\ back' = <<>>
    /\ selectedFile' = NoFile
    /\ isUploading' = FALSE

\* a freshly mounted StudyMode with its Flashcard
FreshStudy ==
    /\ currentIndex' = 0
    /\ isFlipped' = FALSE

----------------------------------------------------------------------------
(* JSON values and the text of a model reply *)

\* bounds: tokens in a reply text, entries in a reply that is a JSON array
MaxReplyLen == 5
MaxEntries == 2

\* a property of a JSON object: absent, a number, or a string
Undef == [type |-> "undefined", s |-> <<>>]
NumField == [type |-> "number", s |-> <<>>]
Str(s) == [type |-> "string", s |-> s]

FieldTexts == { <<>>, <<" ">>, <<"q", " ">>, <<"a">> }
FieldVals == {Undef, NumField} \cup { Str(s) : s \in FieldTexts }

JNull == [kind |-> "null", front |-> Undef, back |-> Undef, elems |-> <<>>]
JNumber == [kind |-> "number", front |-> Undef, back |-> Undef, elems |-> <<>>]
JString == [kind |-> "string", front |-> Undef, back |-> Undef, elems |-> <<>>]
JObject(f, b) == [kind |-> "object", front |-> f, back |-> b, elems |-> <<>>]
JArray(es) == [kind |-> "array", front |-> Undef, back |-> Undef, elems |-> es]

\* the values an entry of the reply's array may be
Entries ==
    {JNull, JNumber, JString, JArray(<<>>)}
        \cup { JObject(f, b) : f \in FieldVals, b \in FieldVals }

\* a reply text is a sequence of tokens: brackets, commas, prose that is not
\* JSON, and JSON values other than arrays
LB == [k |-> "[", v |-> JNull]
RB == [k |-> "]", v |-> JNull]
Comma == [k |-> ",", v |-> JNull]
Prose == [k |-> "text", v |-> JNull]
Val(v) == [k |-> "value", v |-> v]

CardQ == JObject(Str(<<"q", " ">>), Str(<<"a">>))
CardA == JObject(Str(<<"a">>), Str(<<"q", " ">>))
CardBlank == JObject(Str(<<" ">>), Str(<<"a">>))

RECURSIVE Stringify(_)
RECURSIVE StringifyElems(_)
\* JSON.stringify of a value, as tokens
Stringify(v) ==
    IF v.kind = "array"
    THEN <<LB>> \o StringifyElems(v.elems) \o <<RB>>
    ELSE <<Val(v)>>
StringifyElems(es) ==
    IF es = <<>> THEN <<>>
    ELSE IF Len(es) = 1 THEN Stringify(es[1])
    ELSE Stringify(es[1]) \o <<Comma>> \o StringifyElems(Tail(es))

ParseError == [ok |-> FALSE, val |-> JNull, next |-> 0]

RECURSIVE ParseValue(_, _)
RECURSIVE ParseElems(_, _, _)
\* one JSON value starting at token i: [ok, val, next]
ParseValue(toks, i) ==
    IF i > Len(toks) THEN ParseError
    ELSE IF toks[i].k = "value" THEN [ok |-> TRUE, val |-> toks[i].v, next |-> i + 1]
    ELSE IF toks[i].k = "["
    THEN IF i + 1 <= Len(toks) /\ toks[i + 1].k = "]"
         THEN [ok |-> TRUE, val |-> JArray(<<>>), next |-> i + 2]
         ELSE ParseElems(toks, i + 1, <<>>)
    ELSE ParseError
\* the elements of an array whose first acc elements are read, from token i
ParseElems(toks, i, acc) ==
    LET r == ParseValue(toks, i) IN
    IF ~r.ok \/ r.next > Len(toks) THEN ParseError
    ELSE IF toks[r.next].k = ","
    THEN ParseElems(toks, r.next + 1, Append(acc, r.val))
    ELSE IF toks[r.next].k = "]"
    THEN [ok |-> TRUE, val |-> JArray(Append(acc, r.val)), next |-> r.next + 1]
    ELSE ParseError

\* JSON.parse: the whole text must be one value; ok = FALSE is a SyntaxError
JSONparse(toks) ==
    LET r == ParseValue(toks, 1) IN
    IF r.ok /\ r.next = Len(toks) + 1 THEN r ELSE ParseError

----------------------------------------------------------------------------
(* ClaudeService.generateFlashcards *)

Positions(toks, kind) == { i \in 1..Len(toks) : toks[i].k = kind }
Min(S) == CHOOSE x \in S : \A y \in S : x <= y
Max(S) == CHOOSE x \in S : \A y \in S : x >= y

\* content_text.match(/\[[\s\S]*\]/): the quantifier is greedy, so the match
\* runs from the first "[" to the last "]" after it
jsonMatch(text) ==
    LET opens == Positions(text, "[")
        closes == Positions(text, "]")
    IN  IF opens # {} /\ closes # {} /\ Max(closes) > Min(opens)
        THEN [found |-> TRUE, str |-> SubSeq(text, Min(opens), Max(closes))]
        ELSE [found |-> FALSE, str |-> <<>>]

\* variant of isValidFlashcard: the texts are compared without trim()
isValidFlashcard_noTrim(card) ==
    /\ card.kind # "null"
    /\ card.kind \in {"object", "array"}
    /\ card.front.type = "string"
    /\ card.back.type = "string"
    /\ card.front.s # <<>>
    /\ card.back.s # <<>>

\* the filter predicate of validFlashcards
isValidFlashcard(card) ==
    /\ card.kind # "null"                          \* card &&
    /\ card.kind \in {"object", "array"}           \* typeof card === 'object'
    /\ card.front.type = "string"
    /\ card.back.type = "string"
    /\ trim(card.front.s) # <<>>
    /\ trim(card.back.s) # <<>>

RECURSIVE filter(_)
\* flashcards.filter(card => ...)
filter(flashcards) ==
    IF flashcards = <<>> THEN <<>>
    ELSE IF isValidFlashcard(Head(flashcards))
    THEN <<Head(flashcards)>> \o filter(Tail(flashcards))
    ELSE filter(Tail(flashcards))

Thrown(msg) == [outcome |-> "thrown", error |-> msg, cards |-> <<>>]
Returned(cs) == [outcome |-> "returned", error |-> "", cards |-> cs]
NoResult == [outcome |-> "none", error |-> "", cards |-> <<>>]

\* what the fetch() yields: it rejects, or it resolves to a response with a
\* status, a body that is JSON or not, an error.message, and content[0].text
Rejected ==
    [kind |-> "rejected", status |-> 0, json |-> FALSE, message |-> "",
     hasText |-> FALSE, text |-> <<>>]
Http(status, json, message, hasText, text) ==
    [kind |-> "http", status |-> status, json |-> json, message |-> message,
     hasText |-> hasText, text |-> text]
OkText(text) == Http(200, TRUE, "", TRUE, text)

\* response.ok
ok(resp) == resp.status \in 200..299

\* variant of validOrThrow: the zero-length check is missing
validOrThrow_noCheck(validFlashcards) == Returned(validFlashcards)

\* the zero-length check of validFlashcards
validOrThrow(validFlashcards) ==
    IF Len(validFlashcards) = 0
    THEN Thrown("No valid flashcards found in response")
    ELSE Returned(validFlashcards)

\* the steps after content_text is known to be non-empty
extractFlashcards(content_text) ==
    LET m == jsonMatch(content_text) IN
    IF ~m.found THEN Thrown("Could not find valid JSON in Claude response")
    ELSE LET flashcards == JSONparse(m.str) IN
         IF ~flashcards.ok THEN Thrown("SyntaxError")
         ELSE IF flashcards.val.kind # "array"
         THEN Thrown("Response is not a valid flashcard array")
         ELSE validOrThrow(filter(flashcards.val.elems))

\* generateFlashcards with localStorage holding key and fetch() yielding resp;
\* every error caught is an Error and is thrown again unchanged
generateFlashcards(key, resp) ==
    IF key = <<>> THEN Thrown("API key not found")
    ELSE IF resp.kind = "rejected" THEN Thrown("Failed to fetch")
    ELSE IF ~ok(resp)
    THEN Thrown(IF resp.json /\ resp.message # "" THEN resp.message
                ELSE "HTTP " \o ToString(resp.status)
                         \o ": Failed to generate flashcards")
    ELSE IF ~resp.json THEN Thrown("SyntaxError")
    ELSE IF ~resp.hasText \/ resp.text = <<>>
    THEN Thrown("No response content received from Claude")
    ELSE extractFlashcards(resp.text)

\* responses that carry no reply text
FailureResponses ==
    { Rejected,
      Http(401, TRUE, "invalid x-api-key", FALSE, <<>>),
      Http(529, FALSE, "", FALSE, <<>>),
      Http(200, FALSE, "", FALSE, <<>>),
      Http(200, TRUE, "", FALSE, <<>>),
      Http(200, TRUE, "", TRUE, <<>>) }

\* reply texts of the model: any token sequence, and any array of entries
TokenReplies == SeqsUpTo({LB, RB, Comma, Prose, Val(CardQ)}, MaxReplyLen)
ArrayReplies == { Stringify(JArray(es)) : es \in SeqsUpTo(Entries, MaxEntries) }
GenResponses ==
    FailureResponses \cup { OkText(t) : t \in (TokenReplies \cup ArrayReplies) \ {<<>>} }

\* the replies the FileUpload component is driven with
SampleReplies ==
    { Stringify(JArray(<<CardQ, CardA>>)),
      Stringify(JArray(<<CardBlank, CardQ>>)),
      Stringify(JArray(<<CardBlank>>)),
      Stringify(JArray(<<>>)),
      <<Prose>>,
      <<Prose, LB, Val(CardQ), RB, Prose>>,
      <<LB, Val(CardQ), RB, Prose, LB, Prose, RB>> }
SampleResponses == FailureResponses \cup { OkText(t) : t \in SampleReplies }

\* the state after the page is loaded, but for the parts of ClaudeService
InitPage ==
    /\ cards = InitialCards
    /\ mode = "study"
    /\ currentIndex = 0
    /\ isFlipped = FALSE
    /\ front = <<>>
    /\ back = <<>>
    /\ selectedFile = NoFile
    /\ isUploading = FALSE
    /\ inflight = <<>>
    /\ now = PageLoadTime
    /\ added = <<>>
    /\ toasts = <<>>
    /\ file = NoFile
    /\ isProcessing = FALSE
    /\ apiKey = <<>>
    /\ call = [stage |-> "idle", file |-> NoFile]
    /\ generated = <<>>

Init ==
    /\ InitPage
    /\ storedKey = <<>>
    /\ response = Rejected
    /\ lastGen = NoResult

\* the clock advances between two events
Tick ==
    /\ now < PageLoadTime + MaxTicks
    /\ now' = now + 1
    /\ UNCHANGED <<cards, added, mode, currentIndex, isFlipped, front, back,
                   selectedFile, isUploading, inflight, toasts>>
    /\ UNCHANGED fuVars

nextCard ==
    /\ mode = "study"
    /\ Len(cards) > 1
    /\ currentIndex' = nextIndex(currentIndex, Len(cards))
    /\ isFlipped' = flipAfterMove(currentIndex')
    /\ toasts' = <<>>
    /\ UNCHANGED <<cards, added, mode, front, back, selectedFile, isUploading,
                   inflight, now>>
    /\ UNCHANGED fuVars

prevCard ==
    /\ mode = "study"
    /\ Len(cards) > 1
    /\ currentIndex' = prevIndex(currentIndex, Len(cards))
    /\ isFlipped' = flipAfterMove(currentIndex')
    /\ toasts' = <<>>
    /\ UNCHANGED <<cards, added, mode, front, back, selectedFile, isUploading,
                   inflight, now>>
    /\ UNCHANGED fuVars

resetProgress ==
    /\ mode = "study"
    /\ Len(cards) > 0
    /\ currentIndex' = 0
    /\ isFlipped' = flipAfterMove(currentIndex')
    /\ toasts' = <<>>
    /\ UNCHANGED <<cards, added, mode, front, back, selectedFile, isUploading,
                   inflight, now>>
    /\ UNCHANGED fuVars

\* variant of flipped: the card is turned to its back, never to its front
flipped_backOnly(f) == TRUE

\* setIsFlipped(!isFlipped)
flipped(f) == ~f

handleFlip ==
    /\ mode = "study"
    /\ Len(cards) > 0
    /\ isFlipped' = flipped(isFlipped)
    /\ toasts' = <<>>
    /\ UNCHANGED <<cards, added, mode, currentIndex, front, back, selectedFile,
                   isUploading, inflight, now>>
    /\ UNCHANGED fuVars

\* setMode("create"): StudyMode is unmounted, a new CreateCardForm is mounted
EnterCreate ==
    /\ mode' = "create"
    /\ FreshStudy
    /\ FreshForm
    /\ toasts' = <<>>
    /\ UNCHANGED <<cards, added, inflight, now>>
    /\ UNCHANGED fuVars

\* setMode("study"): CreateCardForm is unmounted, a new StudyMode is mounted
EnterStudy ==
    /\ mode' = "study"
    /\ FreshStudy
    /\ FreshForm
    /\ inflight' = Orphaned(inflight)
    /\ toasts' = <<>>
    /\ UNCHANGED <<cards, added, now>>
    /\ UNCHANGED fuVars

\* header button: setMode(mode === "study" ? "create" : "study")
toggleMode ==
    \/ mode = "study" /\ EnterCreate
    \/ mode = "create" /\ EnterStudy

\* StudyMode's "Add Cards" / "Create Flashcard" button
onBackToCreate ==
    /\ mode = "study"
    /\ EnterCreate

\* the "Start Studying" button under the form
startStudying ==
    /\ mode = "create"
    /\ Len(cards) > 0
    /\ EnterStudy

----------------------------------------------------------------------------
(* CreateCardForm *)

setFront(s) ==
    /\ mode = "create"
    /\ front' = s
    /\ toasts' = <<>>
    /\ UNCHANGED <<cards, added, mode, currentIndex, isFlipped, back, selectedFile,
                   isUploading, inflight, now>>
    /\ UNCHANGED fuVars

setBack(s) ==
    /\ mode = "create"
    /\ back' = s
    /\ toasts' = <<>>
    /\ UNCHANGED <<cards, added, mode, currentIndex, isFlipped, front, selectedFile,
                   isUploading, inflight, now>>
    /\ UNCHANGED fuVars

\* variant of canSubmit: only the front text is tested
canSubmit_frontOnly(f, b) == trim(f) # <<>>

\* if (front.trim() && back.trim())
canSubmit(f, b) == trim(f) # <<>> /\ trim(b) # <<>>

\* variant of addCard: the list spread is the one of the first render
addCard_stale(f, b) ==
    /\ cards' = Append(InitialCards, newCard(f, b, now))
    /\ added' = Append(added, newCard(f, b, now))
    /\ mode' = "study"
    /\ FreshStudy
    /\ FreshForm
    /\ inflight' = Orphaned(inflight)

\* Index.addCard: setCards([...cards, newCard]); setMode("study")
addCard(f, b) ==
    /\ cards' = Append(cards, newCard(f, b, now))
    /\ added' = Append(added, newCard(f, b, now))
    /\ mode' = "study"
    /\ FreshStudy
    /\ FreshForm
    /\ inflight' = Orphaned(inflight)

handleSubmit ==
    /\ mode = "create"
    /\ toasts' = <<>>
    /\ IF canSubmit(front, back)
       THEN /\ Len(cards) < MaxCards
            /\ addCard(trim(front), trim(back))
            /\ UNCHANGED now
       ELSE UNCHANGED indexVars
    /\ UNCHANGED fuVars

\* the title of the toast that rejects file f, or "" when f is accepted
fileRejection(f) ==
    IF f.size > maxSize THEN "File too large"
    ELSE IF f.type \notin allowedTypes THEN "Unsupported file type"
    ELSE ""

handleFileSelect(f) ==
    /\ mode = "create"
    /\ ~isUploading
    /\ IF fileRejection(f) # ""
       THEN /\ toasts' = <<fileRejection(f)>>
            /\ UNCHANGED selectedFile
       ELSE /\ toasts' = <<>>
            /\ selectedFile' = f
    /\ UNCHANGED <<cards, added, mode, currentIndex, isFlipped, front, back,
                   isUploading, inflight, now>>
    /\ UNCHANGED fuVars

clearFile ==
    /\ mode = "create"
    /\ selectedFile # NoFile
    /\ ~isUploading
    /\ selectedFile' = NoFile
    /\ toasts' = <<>>
    /\ UNCHANGED <<cards, added, mode, currentIndex, isFlipped, front, back,
                   isUploading, inflight, now>>
    /\ UNCHANGED fuVars

\* the "Generate Flashcards" button: disabled={!selectedFile || isUploading}
uploadEnabled == selectedFile # NoFile /\ ~isUploading

\* handleFileUpload up to its first await: the fetch() is issued
handleFileUpload ==
    /\ mode = "create"
    /\ uploadEnabled
    /\ Len(inflight) < MaxInFlight
    /\ isUploading' = TRUE
    /\ inflight' = Append(inflight, [file |-> selectedFile, live |-> TRUE])
    /\ toasts' = <<>>
    /\ UNCHANGED <<cards, added, mode, currentIndex, isFlipped, front, back,
                   selectedFile, now>>
    /\ UNCHANGED fuVars

\* variant of addCardsFromDocument: the previous list is not spread
addCardsFromDocument_replace(newCards) == cardsWithIds(newCards, now)

\* variant of addCardsFromDocument: the list spread is the one of the first
\* render instead of the previous state
addCardsFromDocument_stale(newCards) ==
    InitialCards \o cardsWithIds(newCards, now)

\* variant of addCardsFromDocument: the new cards are put in front
addCardsFromDocument_prepend(newCards) == cardsWithIds(newCards, now) \o cards

\* Index.addCardsFromDocument:
\* setCards(prevCards => [...prevCards, ...cardsWithIds]); setMode("study")
addCardsFromDocument(newCards) == cards \o cardsWithIds(newCards, now)

\* handleFileUpload resumes with response.ok and a {flashcards_count,
\* flashcards} body
uploadSucceeded(i, resp) ==
    /\ i \in 1..Len(inflight)
    /\ Len(cards) + Len(resp) <= MaxCards
    /\ toasts' = <<"Success!">>
    /\ cards' = addCardsFromDocument(resp)
    /\ added' = added \o cardsWithIds(resp, now)
    /\ mode' = "study"
    /\ IF mode = "create"
       THEN /\ FreshStudy
            /\ FreshForm
            /\ inflight' = Orphaned(RemoveAt(inflight, i))
       ELSE /\ inflight' = RemoveAt(inflight, i)
            /\ UNCHANGED <<currentIndex, isFlipped, front, back, selectedFile,
                           isUploading>>
    /\ UNCHANGED now
    /\ UNCHANGED fuVars

\* variant of uploadFailed: the file selection is reset on failure as well
uploadFailed_clearsFile(i) ==
    /\ i \in 1..Len(inflight)
    /\ toasts' = <<"Upload failed">>
    /\ isUploading' = IF inflight[i].live THEN FALSE ELSE isUploading
    /\ selectedFile' = IF inflight[i].live THEN NoFile ELSE selectedFile
    /\ inflight' = RemoveAt(inflight, i)
    /\ UNCHANGED <<cards, added, mode, currentIndex, isFlipped, front, back, now>>
    /\ UNCHANGED fuVars

\* variant of uploadFailed: no finally block, the flag is not cleared
uploadFailed_noFinally(i) ==
    /\ i \in 1..Len(inflight)
    /\ toasts' = <<"Upload failed">>
    /\ inflight' = RemoveAt(inflight, i)
    /\ UNCHANGED <<cards, added, mode, currentIndex, isFlipped, front, back,
                   selectedFile, isUploading, now>>
    /\ UNCHANGED fuVars

\* the else branch and the catch block, then finally setIsUploading(false)
uploadFailed(i) ==
    /\ i \in 1..Len(inflight)
    /\ toasts' = <<"Upload failed">>
    /\ isUploading' = IF inflight[i].live THEN FALSE ELSE isUploading
    /\ inflight' = RemoveAt(inflight, i)
    /\ UNCHANGED <<cards, added, mode, currentIndex, isFlipped, front, back,
                   selectedFile, now>>
    /\ UNCHANGED fuVars

\* the response has a non-2xx status and a JSON body {error}
uploadNotOk(i) == uploadFailed(i)

\* response.json() rejects: the body is not JSON
uploadBadBody(i) == uploadFailed(i)

\* fetch() rejects: the server cannot be reached
uploadNetworkError(i) == uploadFailed(i)

Next ==
    \/ Tick
    \/ nextCard
    \/ prevCard
    \/ resetProgress
    \/ handleFlip
    \/ toggleMode
    \/ onBackToCreate
    \/ startStudying
    \/ \E s \in FormTexts : setFront(s)
    \/ \E s \in FormTexts : setBack(s)
    \/ handleSubmit
    \/ \E f \in Files : handleFileSelect(f)
    \/ clearFile
    \/ handleFileUpload
    \/ \E i \in 1..MaxInFlight, resp \in Responses : uploadSucceeded(i, resp)
    \/ \E i \in 1..MaxInFlight : uploadNotOk(i)
    \/ \E i \in 1..MaxInFlight : uploadBadBody(i)
    \/ \E i \in 1..MaxInFlight : uploadNetworkError(i)

Spec == Init /\ [][Next]_vars

----------------------------------------------------------------------------
(* FileUpload *)

KeyTexts == { <<>>, <<" ">>, <<"sk-ant">> }

Idle == [stage |-> "idle", file |-> NoFile]

FileUpload_handleFileSelect(f) ==
    /\ file' = f
    /\ toasts' = <<>>
    /\ UNCHANGED <<isProcessing, apiKey, storedKey, call, response, lastGen,
                   generated>>
    /\ UNCHANGED indexVars

setApiKey(k) ==
    /\ apiKey' = k
    /\ toasts' = <<>>
    /\ UNCHANGED <<file, isProcessing, storedKey, call, response, lastGen,
                   generated>>
    /\ UNCHANGED indexVars

\* handleUpload up to its first await: the guards, saveApiKey, and the
\* FileReader started on the file; the button is disabled while isProcessing
handleUpload ==
    /\ ~isProcessing
    /\ IF file = NoFile
       THEN /\ toasts' = <<"No file selected">>
            /\ UNCHANGED <<isProcessing, storedKey, call>>
       ELSE IF trim(apiKey) = <<>>
       THEN /\ toasts' = <<"API Key required">>
            /\ UNCHANGED <<isProcessing, storedKey, call>>
       ELSE /\ toasts' = <<>>
            /\ isProcessing' = TRUE
            /\ storedKey' = apiKey
            /\ call' = [stage |-> "reading", file |-> file]
    /\ UNCHANGED <<file, apiKey, response, lastGen, generated>>
    /\ UNCHANGED indexVars

\* the catch and finally blocks of handleUpload
processingFailed ==
    /\ toasts' = <<"Processing failed">>
    /\ isProcessing' = FALSE
    /\ call' = Idle
    /\ UNCHANGED <<file, generated>>

\* reader.onload: generateFlashcards starts; it throws without a stored key
\* and issues the fetch() with the file's content otherwise
readFileContentDone ==
    /\ call.stage = "reading"
    /\ IF storedKey = <<>>
       THEN /\ processingFailed
            /\ lastGen' = generateFlashcards(storedKey, Rejected)
       ELSE /\ call' = [call EXCEPT !.stage = "fetching"]
            /\ toasts' = <<>>
            /\ UNCHANGED <<file, isProcessing, lastGen, generated>>
    /\ UNCHANGED <<apiKey, storedKey, response>>
    /\ UNCHANGED indexVars

\* reader.onerror: readFileContent rejects
readFileContentFailed ==
    /\ call.stage = "reading"
    /\ processingFailed
    /\ UNCHANGED <<apiKey, storedKey, response, lastGen>>
    /\ UNCHANGED indexVars

\* what handleUpload does with the outcome of generateFlashcards
afterGenerate(result) ==
    IF result.outcome = "thrown" THEN processingFailed
    ELSE /\ isProcessing' = FALSE
         /\ call' = Idle
         /\ IF Len(result.cards) > 0
            THEN /\ generated' = result.cards
                 /\ toasts' = <<"Success!">>
                 /\ file' = NoFile
            ELSE /\ toasts' = <<"No cards generated">>
                 /\ UNCHANGED <<file, generated>>

\* the fetch() settles and generateFlashcards, then handleUpload, run on
fetchSettled(resp) ==
    /\ call.stage = "fetching"
    /\ lastGen' = generateFlashcards(storedKey, resp)
    /\ afterGenerate(lastGen')
    /\ UNCHANGED <<apiKey, storedKey, response>>
    /\ UNCHANGED indexVars

NextFileUpload ==
    \/ \E f \in Files : FileUpload_handleFileSelect(f)
    \/ \E k \in KeyTexts : setApiKey(k)
    \/ handleUpload
    \/ readFileContentDone
    \/ readFileContentFailed
    \/ \E resp \in SampleResponses : fetchSettled(resp)

SpecFileUpload == Init /\ [][NextFileUpload]_vars

----------------------------------------------------------------------------
(* generateFlashcards on its own: every stored key and every response *)

InitGenerate ==
    /\ InitPage
    /\ storedKey \in {<<>>, <<"sk-ant">>}
    /\ response \in GenResponses
    /\ lastGen = NoResult

generate ==
    /\ lastGen = NoResult
    /\ lastGen' = generateFlashcards(storedKey, response)
    /\ UNCHANGED <<file, isProcessing, apiKey, storedKey, call, response,
                   generated, toasts>>
    /\ UNCHANGED indexVars

NextGenerate == generate

SpecGenerate == InitGenerate /\ [][NextGenerate]_vars

----------------------------------------------------------------------------
(* Both upload components, with every started request settling *)

\* FileUpload is not rendered by the Index page, so the two components are
\* not in use together: each takes steps while the other one is in the
\* state it is constructed in
IndexUnused ==
    /\ cards = InitialCards
    /\ mode = "study"
    /\ currentIndex = 0
    /\ ~isFlipped
    /\ front = <<>>
    /\ back = <<>>
    /\ selectedFile = NoFile
    /\ ~isUploading
    /\ inflight = <<>>
    /\ now = PageLoadTime
    /\ added = <<>>

FileUploadUnused ==
    /\ file = NoFile
    /\ ~isProcessing
    /\ apiKey = <<>>
    /\ storedKey = <<>>
    /\ call = Idle
    /\ response = Rejected
    /\ lastGen = NoResult
    /\ generated = <<>>

\* the fetch() of the i-th pending request of CreateCardForm settles
uploadSettled(i) ==
    \/ \E resp \in Responses : uploadSucceeded(i, resp)
    \/ uploadNotOk(i)
    \/ uploadBadBody(i)
    \/ uploadNetworkError(i)

\* the FileReader of FileUpload fires onload or onerror
readFileContentSettled == readFileContentDone \/ readFileContentFailed

\* the fetch() of ClaudeService settles
generateSettled == \E resp \in SampleResponses : fetchSettled(resp)

NextUploads ==
    \/ FileUploadUnused /\ Tick
    \/ FileUploadUnused /\ nextCard
    \/ FileUploadUnused /\ prevCard
    \/ FileUploadUnused /\ resetProgress
    \/ FileUploadUnused /\ handleFlip
    \/ FileUploadUnused /\ toggleMode
    \/ FileUploadUnused /\ onBackToCreate
    \/ FileUploadUnused /\ startStudying
    \/ FileUploadUnused /\ (\E s \in FormTexts : setFront(s))
    \/ FileUploadUnused /\ (\E s \in FormTexts : setBack(s))
    \/ FileUploadUnused /\ handleSubmit
    \/ FileUploadUnused /\ (\E f \in Files : handleFileSelect(f))
    \/ FileUploadUnused /\ clearFile
    \/ FileUploadUnused /\ handleFileUpload
    \/ FileUploadUnused /\ (\E i \in 1..MaxInFlight : uploadSettled(i))
    \/ IndexUnused /\ (\E f \in Files : FileUpload_handleFileSelect(f))
    \/ IndexUnused /\ (\E k \in KeyTexts : setApiKey(k))
    \/ IndexUnused /\ handleUpload
    \/ IndexUnused /\ readFileContentSettled
    \/ IndexUnused /\ generateSettled

\* a pending request or file read settles
Settled ==
    \/ FileUploadUnused /\ (\E i \in 1..MaxInFlight : uploadSettled(i))
    \/ IndexUnused /\ readFileContentSettled
    \/ IndexUnused /\ generateSettled

\* requests and file reads do not stay pending for ever
SettleFairness == WF_vars(Settled)

SpecUploads == Init /\ [][NextUploads]_vars /\ SettleFairness

----------------------------------------------------------------------------
(* Properties *)

RECURSIVE nextTimes(_, _, _)
\* the index after n nextCard steps from index i in a list of len cards
nextTimes(n, i, len) ==
    IF n = 0 THEN i ELSE nextTimes(n - 1, nextIndex(i, len), len)

RECURSIVE prevTimes(_, _, _)
\* the index after n prevCard steps from index i in a list of len cards
prevTimes(n, i, len) ==
    IF n = 0 THEN i ELSE prevTimes(n - 1, prevIndex(i, len), len)

\* C1: with L cards, nextCard moves from index L-1 to 0 and otherwise one up,
\* prevCard moves from index 0 to L-1 and otherwise one down; from every
\* index StudyMode reaches, L nextCard steps and L prevCard steps lead back
\* to it, and prevCard undoes nextCard
C1_NavigationWraps ==
    /\ [][nextCard =>
            currentIndex' = IF currentIndex = Len(cards) - 1 THEN 0
                            ELSE currentIndex + 1]_vars
    /\ [][prevCard =>
            currentIndex' = IF currentIndex = 0 THEN Len(cards) - 1
                            ELSE currentIndex - 1]_vars
    /\ [](mode = "study" /\ Len(cards) > 0 =>
            /\ nextTimes(Len(cards), currentIndex, Len(cards)) = currentIndex
            /\ prevTimes(Len(cards), currentIndex, Len(cards)) = currentIndex
            /\ prevIndex(nextIndex(currentIndex, Len(cards)), Len(cards))
                  = currentIndex)

\* the last of three or more cards is displayed: the next nextCard wraps
C1_Witness ==
    /\ mode = "study"
    /\ Len(cards) >= 3
    /\ currentIndex = Len(cards) - 1

\* C2: a flip changes isFlipped to its negation and leaves the card list
\* (so every front and back text), the current index and the mode as they
\* were; two flips give the flip state back
C2_FlipOnlyToggles ==
    /\ [][handleFlip =>
            /\ isFlipped' = ~isFlipped
            /\ UNCHANGED <<cards, currentIndex, mode>>]_vars
    /\ [](flipped(flipped(isFlipped)) = isFlipped)

\* a card other than the first one shows its back
C2_Witness ==
    /\ mode = "study"
    /\ isFlipped
    /\ currentIndex > 0

\* the file is within the size limit and of an accepted type
AcceptedFile(f) == f.size <= maxSize /\ f.type \in allowedTypes

\* C3: no pending network request carries a file over 5MB or of a type other
\* than plain text, PDF or Word, in CreateCardForm and in FileUpload
C3_NoRequestWithRejectedFile ==
    /\ \A k \in 1..Len(inflight) : AcceptedFile(inflight[k].file)
    /\ call.stage = "fetching" => AcceptedFile(call.file)

\* the array JSON.parse returns for the response's reply text
ParsedArray(resp) == JSONparse(jsonMatch(resp.text).str).val.elems

\* an object whose front and back are strings that are non-empty when trimmed
C4_IsCard(e) ==
    /\ e.kind = "object"
    /\ e.front.type = "string" /\ trim(e.front.s) # <<>>
    /\ e.back.type = "string" /\ trim(e.back.s) # <<>>

\* C4: the cards generateFlashcards returns are exactly the entries of the
\* parsed array that are objects with non-empty trimmed string front and
\* back, in the order of the array
C4_InvalidEntriesDropped ==
    lastGen.outcome = "returned" =>
        /\ \A k \in 1..Len(lastGen.cards) : C4_IsCard(lastGen.cards[k])
        /\ lastGen.cards = SelectSeq(ParsedArray(response), C4_IsCard)

\* two entries were parsed, one was dropped and one returned
C4_Witness ==
    /\ lastGen.outcome = "returned"
    /\ Len(ParsedArray(response)) = 2
    /\ Len(lastGen.cards) = 1

\* the front and back texts of a list of cards
Texts(cs) == [k \in 1..Len(cs) |-> [front |-> cs[k].front, back |-> cs[k].back]]

\* C5: when an upload succeeds with N cards in the response (the steps that
\* show the "Success!" toast), the list grows by N: the previous list is
\* kept and the N cards follow it in response order with the same front and
\* back texts
C5_UploadAppendsAllCards ==
    [][toasts' = <<"Success!">> =>
          \A i \in 1..MaxInFlight, resp \in Responses :
              uploadSucceeded(i, resp) =>
                  /\ Len(cards') = Len(cards) + Len(resp)
                  /\ SubSeq(cards', 1, Len(cards)) = cards
                  /\ Texts(SubSeq(cards', Len(cards) + 1, Len(cards')))
                        = resp]_vars

\* an upload has just added two different cards after the two built-in ones
C5_Witness ==
    /\ toasts = <<"Success!">>
    /\ Len(cards) = 4
    /\ Texts(SubSeq(cards, 3, 4)) =
         << [front |-> <<"Q1">>, back |-> <<"A1">>],
            [front |-> <<"Q2">>, back |-> <<"A2">>] >>

\* generateFlashcards obtained no valid entry from the reply
NothingParseable(result) ==
    \/ result.outcome = "returned" /\ result.cards = <<>>
    \/ /\ result.outcome = "thrown"
       /\ result.error \in {"Could not find valid JSON in Claude response",
                            "No valid flashcards found in response"}

\* C6: when handleUpload ends on a reply without a valid entry, the toast
\* shown is "No cards generated" and no cards are handed to onCardsGenerated
C6_NoCardsNotice ==
    [][(call.stage = "fetching" /\ call'.stage = "idle"
            /\ NothingParseable(lastGen')) =>
          /\ toasts' = <<"No cards generated">>
          /\ generated' = generated]_vars

\* C7: generateFlashcards returns a non-empty list or throws; without a
\* stored key, on a rejected fetch, a non-OK status, missing content, a
\* reply without a bracketed substring, and a reply without a valid entry
\* it throws
C7_NeverReturnsEmpty ==
    lastGen # NoResult =>
        /\ lastGen.outcome \in {"returned", "thrown"}
        /\ lastGen.outcome = "returned" => Len(lastGen.cards) > 0
        /\ (\/ storedKey = <<>>
            \/ response.kind = "rejected"
            \/ ~ok(response)
            \/ ~response.hasText
            \/ response.text = <<>>
            \/ ~jsonMatch(response.text).found
            \/ ~JSONparse(jsonMatch(response.text).str).ok
            \/ SelectSeq(ParsedArray(response), C4_IsCard) = <<>>)
              => lastGen.outcome = "thrown"

\* a well-formed array without any valid entry made generateFlashcards throw
C7_Witness ==
    /\ lastGen = Thrown("No valid flashcards found in response")
    /\ Len(ParsedArray(response)) > 0

\* C8: at most one upload request is pending at any time
C8_AtMostOneInFlight == Len(inflight) <= 1

\* the first [...] substring: from the first "[" to the first "]" after it
FirstBracketed(text) ==
    LET opens == Positions(text, "[")
        closes == { i \in Positions(text, "]") : opens # {} /\ i > Min(opens) }
    IN  IF closes # {}
        THEN [found |-> TRUE, str |-> SubSeq(text, Min(opens), Min(closes))]
        ELSE [found |-> FALSE, str |-> <<>>]

\* C9: when the first [...] substring of the reply is a JSON array with a
\* valid card, whatever text surrounds it, that substring is what is parsed
\* and its valid cards are returned
C9_FirstBracketedArrayParsed ==
    (/\ lastGen # NoResult
     /\ storedKey # <<>>
     /\ response.kind = "http" /\ ok(response) /\ response.json
     /\ response.hasText
     /\ FirstBracketed(response.text).found
     /\ JSONparse(FirstBracketed(response.text).str).ok
     /\ filter(JSONparse(FirstBracketed(response.text).str).val.elems) # <<>>)
        => /\ jsonMatch(response.text).str = FirstBracketed(response.text).str
           /\ lastGen = Returned(
                filter(JSONparse(FirstBracketed(response.text).str).val.elems))

\* C10: a failed upload shows one "Upload failed" toast, issues no further
\* request and leaves the card list, the mode and the selected file as they
\* were; a click on the upload button issues exactly one request; a settled
\* upload clears the selected file only when it succeeded
C10_FailedUploadLeavesState ==
    /\ [][(\E i \in 1..MaxInFlight : uploadFailed(i)) =>
            /\ toasts' = <<"Upload failed">>
            /\ Len(inflight') = Len(inflight) - 1
            /\ UNCHANGED <<cards, mode, selectedFile>>]_vars
    /\ [][handleFileUpload => Len(inflight') = Len(inflight) + 1]_vars
    /\ [][(Len(inflight') < Len(inflight) /\ selectedFile # NoFile
              /\ selectedFile' = NoFile) =>
            toasts' = <<"Success!">>]_vars

\* an upload has just failed and its file is still selected
C10_Witness ==
    /\ toasts = <<"Upload failed">>
    /\ mode = "create"
    /\ selectedFile # NoFile
    /\ ~isUploading
    /\ inflight = <<>>

\* ids of the cards made by Index.addCard
ManualIds == { ToString(t) : t \in PageLoadTime..(PageLoadTime + MaxTicks) }

IsManual(c) == c.id \in ManualIds

\* C11: whatever the order of uploads in flight, manual submissions and mode
\* toggles, the card list is the two built-in cards followed by every card
\* that addCard and addCardsFromDocument were given, each once and in the
\* order of the calls; in particular so when no request is pending any more
C11_NoCardLost ==
    /\ cards = InitialCards \o added
    /\ inflight = <<>> => Len(cards) = Len(InitialCards) + Len(added)

\* a manual card was added and then an upload, whose form was already
\* unmounted, succeeded while the cards were studied; nothing is pending
C11_Witness ==
    /\ inflight = <<>>
    /\ toasts = <<"Success!">>
    /\ mode = "study"
    /\ currentIndex > 0
    /\ Len(added) = 2
    /\ IsManual(added[1])
    /\ ~IsManual(added[2])

\* C12: every step leaves the previous card list as a prefix of the new one;
\* the list always starts with the two built-in cards, so it is never shorter
\* than two cards and StudyMode never renders its empty-list branch
C12_AppendOnly ==
    /\ [][/\ Len(cards') >= Len(cards)
          /\ SubSeq(cards', 1, Len(cards)) = cards]_vars
    /\ [](Len(cards) >= Len(InitialCards))
    /\ [](SubSeq(cards, 1, Len(InitialCards)) = InitialCards)
    /\ [](~(mode = "study" /\ Len(cards) = 0))

\* the list holds a manual card and a document card and the last card of
\* it is shown in study mode
C12_Witness ==
    /\ mode = "study"
    /\ Len(cards) = MaxCards
    /\ currentIndex = Len(cards) - 1
    /\ \E k \in 1..Len(cards) : IsManual(cards[k])
    /\ \E k \in 3..Len(cards) : ~IsManual(cards[k])

\* C13: after every nextCard, prevCard and resetProgress step the card that
\* is displayed shows its front
C13_MoveShowsFront ==
    [][(nextCard \/ prevCard \/ resetProgress) => ~isFlipped']_vars

\* StudyMode is displayed with a card to show, and currentIndex is an index
\* of the list
IndexInRange ==
    (mode = "study" /\ Len(cards) > 0) =>
        (0 <= currentIndex /\ currentIndex < Len(cards))

\* study mode is entered: a new StudyMode is mounted
StudyEntered == mode = "create" /\ mode' = "study"

\* C14 as stated: currentIndex is an index of the list whenever StudyMode
\* shows a card, the list changes only in steps taken while StudyMode is
\* unmounted, and StudyMode starts at index 0 when study mode is entered
C14_IndexInRange_GrowsOnlyUnmounted ==
    /\ []IndexInRange
    /\ [][mode = "study" => cards' = cards]_vars
    /\ [][StudyEntered => currentIndex' = 0]_vars

\* C14 amended: currentIndex is an index of the list whenever StudyMode
\* shows a card; StudyMode starts at index 0 on the front side when study
\* mode is entered; the list also changes while StudyMode is mounted (an
\* upload of an unmounted form succeeds), and then cards are appended, the
\* mode stays "study" and currentIndex keeps its value
C14_IndexInRange ==
    /\ []IndexInRange
    /\ [][StudyEntered => (currentIndex' = 0 /\ ~isFlipped')]_vars
    /\ [][(mode = "study" /\ cards' # cards) =>
            /\ toasts' = <<"Success!">>
            /\ mode' = "study"
            /\ currentIndex' = currentIndex
            /\ Len(cards') > Len(cards)
            /\ SubSeq(cards', 1, Len(cards)) = cards]_vars

\* the list has just grown while the third card was displayed
C14_Witness ==
    /\ mode = "study"
    /\ toasts = <<"Success!">>
    /\ currentIndex = 2
    /\ Len(cards) = MaxCards
    /\ IsManual(cards[3])
    /\ ~IsManual(cards[4])

\* C16: a submit of the form with both texts non-empty after trimming
\* appends exactly one card holding the trimmed texts, clears both fields
\* and switches to study mode; any other submit leaves the list, the fields
\* and the mode as they were; so every manual card of the list has
\* non-empty front and back texts without leading or trailing white space
C16_SubmitAddsTrimmedCard ==
    /\ [][handleSubmit =>
            IF trim(front) # <<>> /\ trim(back) # <<>>
            THEN /\ cards' = Append(cards, [id |-> ToString(now),
                                            front |-> trim(front),
                                            back |-> trim(back)])
                 /\ front' = <<>>
                 /\ back' = <<>>
                 /\ mode' = "study"
            ELSE UNCHANGED <<cards, front, back, mode>>]_vars
    /\ [](\A k \in 1..Len(cards) :
            IsManual(cards[k]) =>
                /\ cards[k].front # <<>>
                /\ cards[k].back # <<>>
                /\ ~IsSpace(cards[k].front[1])
                /\ ~IsSpace(cards[k].front[Len(cards[k].front)])
                /\ ~IsSpace(cards[k].back[1])
                /\ ~IsSpace(cards[k].back[Len(cards[k].back)]))

\* a submit has just added the third card and study mode shows the first
C16_Witness ==
    /\ mode = "study"
    /\ toasts = <<>>
    /\ front = <<>>
    /\ back = <<>>
    /\ currentIndex = 0
    /\ Len(cards) = 3
    /\ IsManual(cards[3])
    /\ cards[3].front = <<"q">>
    /\ cards[3].back = <<"q">>

\* the pending request of the mounted CreateCardForm settles
LiveUploadSettles ==
    \E i \in 1..MaxInFlight :
        /\ i <= Len(inflight)
        /\ inflight[i].live
        /\ uploadSettled(i)

\* C15: isUploading and isProcessing are set when a request is started and
\* cleared when it ends, whether with a success or with a failure of any
\* kind; while a flag is set the request of its component is pending; as
\* every pending request settles, a flag that is set is cleared later on
C15_UploadingFlagCleared ==
    /\ [][handleFileUpload => isUploading']_vars
    /\ [][LiveUploadSettles => ~isUploading']_vars
    /\ [](isUploading => \E i \in 1..Len(inflight) : inflight[i].live)
    /\ [][(handleUpload /\ call'.stage # "idle") => isProcessing']_vars
    /\ [][(readFileContentSettled \/ generateSettled) =>
            (call'.stage = "idle" <=> ~isProcessing')]_vars
    /\ [](isProcessing <=> call.stage # "idle")
    /\ (isUploading ~> ~isUploading)
    /\ (isProcessing ~> ~isProcessing)

\* FileUpload: the request to the model has failed and the flag is cleared
C15_Witness ==
    /\ ~isProcessing
    /\ call = Idle
    /\ file # NoFile
    /\ storedKey # <<>>
    /\ toasts = <<"Processing failed">>
    /\ lastGen = Thrown("Failed to fetch")

====
